---- MODULE Spec2Model ----
(***************************************************************************)
(* Block generator of chainmint (core/generator/block.go): one MakeBlock   *)
(* cycle recovers or generates a block, persists it in the single-row      *)
(* pending-block table, collects a quorum of signatures from the           *)
(* configured signers and commits the block.                               *)
(***************************************************************************)
EXTENDS Integers, Sequences, FiniteSets, TLC

\* ------------------------------------------------------------- bounds
NumGens == 2        \* generator instances sharing one store and one chain
MaxSigners == 2     \* largest number of configured signers
NumKeys == 2        \* keys a consensus program may name
MaxHeight == 2      \* GenerateBlock is not called above this height
NumTimes == 2       \* distinct values of MakeBlock's time argument
NumTxs == 1         \* distinct transactions that may be submitted

Gens == 1..NumGens
Keys == 1..NumKeys
Times == 1..NumTimes
TxIds == 1..NumTxs

Nil == [nil |-> TRUE]
BadMsg == [notTheBlockHash |-> TRUE]

\* ------------------------------------------------------------- values
\* Consensus programs: an ordered set of keys and a quorum, or a program
\* that does not parse.
KeySeqs == {[i \in 1..n |-> i] : n \in 0..NumKeys}
Programs == UNION {{[ok |-> TRUE, pubkeys |-> ks, quorum |-> q] : q \in 0..Len(ks)} : ks \in KeySeqs}
BadProgram == [ok |-> FALSE, pubkeys |-> <<>>, quorum |-> 0]

\* vmutil.ParseBlockMultiSigProgram: (pubkeys, quorum, err)
ParseBlockMultiSigProgram(prog) ==
    [pubkeys |-> prog.pubkeys, quorum |-> prog.quorum, err |-> ~prog.ok]

\* bc.Block.Hash: derived from every field but the witness
Hash(b) == [height |-> b.height, time |-> b.time, txs |-> b.txs, cp |-> b.cp]

\* legacy.Block.MarshalText: the bytes sent to the signers
MarshalText(b) == [block |-> Hash(b)]

\* A signature is made with one key over one message.  What a signer may
\* return for the bytes it was sent: nothing (choice 0), a signature of the
\* block's hash with one of the keys, or a signature of something else.
ReplyChoices == 0..(NumKeys + 1)
Reply(choice, bytes) ==
    IF choice = 0 THEN Nil
    ELSE IF choice \in Keys THEN [key |-> choice, msg |-> bytes.block]
    ELSE [key |-> 1, msg |-> BadMsg]

\* ed25519.Verify
Verify(key, msg, sig) == sig.key = key /\ sig.msg = msg

\* indexKey returning the first index instead of -1 when no key matches
indexKeyOrFirst(keys, msg, sig) ==
    IF \E i \in 1..Len(keys) : Verify(keys[i], msg, sig)
    THEN (CHOOSE i \in 1..Len(keys) :
            /\ Verify(keys[i], msg, sig)
            /\ \A j \in 1..(i - 1) : ~Verify(keys[j], msg, sig)) - 1
    ELSE 0

\* indexKey: index (from 0) of the first key under which sig verifies, or -1
indexKey(keys, msg, sig) ==
    IF \E i \in 1..Len(keys) : Verify(keys[i], msg, sig)
    THEN (CHOOSE i \in 1..Len(keys) :
            /\ Verify(keys[i], msg, sig)
            /\ \A j \in 1..(i - 1) : ~Verify(keys[j], msg, sig)) - 1
    ELSE -1

\* nonNilSigs putting each entry in front of the ones already kept
RECURSIVE nonNilSigsInFront(_)
nonNilSigsInFront(a) ==
    IF a = <<>> THEN <<>>
    ELSE IF Head(a) /= Nil THEN nonNilSigsInFront(Tail(a)) \o <<Head(a)>>
    ELSE nonNilSigsInFront(Tail(a))

\* nonNilSigs: the non-nil entries of a, in order
RECURSIVE nonNilSigs(_)
nonNilSigs(a) ==
    IF a = <<>> THEN <<>>
    ELSE IF Head(a) /= Nil THEN <<Head(a)>> \o nonNilSigs(Tail(a))
    ELSE nonNilSigs(Tail(a))

\* Upsert with <= for <: a row of the same height is replaced
UpsertSameHeight(row, b) ==
    IF row = Nil THEN [row |-> [data |-> b, height |-> b.height], affected |-> 1]
    ELSE IF row.height <= b.height
         THEN [row |-> [data |-> b, height |-> b.height], affected |-> 1]
         ELSE [row |-> row, affected |-> 0]

\* The ON CONFLICT ... WHERE upsert of savePendingBlock on the single row:
\* the new row and the number of rows affected.
Upsert(row, b) ==
    IF row = Nil THEN [row |-> [data |-> b, height |-> b.height], affected |-> 1]
    ELSE IF row.height < b.height
         THEN [row |-> [data |-> b, height |-> b.height], affected |-> 1]
         ELSE [row |-> row, affected |-> 0]

\* state.Empty: the snapshot of a chain without blocks
EmptySnapshot == [last |-> Nil]

\* state.Copy: a snapshot of its own with the same content
Copy(snap) == [shared |-> FALSE, val |-> snap]

\* The content of a snapshot after Snapshot.ApplyBlock succeeded
Applied(val, b) == [last |-> Hash(b)]

\* Subsequences of a sequence of transactions (what GenerateBlock keeps)
RECURSIVE SubSeqs(_)
SubSeqs(s) ==
    IF s = <<>> THEN {<<>>}
    ELSE LET rest == SubSeqs(Tail(s))
         IN rest \cup {<<Head(s)>> \o r : r \in rest}

HeightOf(blk) == IF blk = Nil THEN 0 ELSE blk.height

\* The head snapshot itself instead of a copy of it
workingSnapshotAlias(latestSnapshot) == [shared |-> TRUE, val |-> latestSnapshot]

\* s = state.Copy(latestSnapshot): the snapshot the pending block is applied to
workingSnapshot(latestSnapshot) == Copy(latestSnapshot)

\* MakeBlock's test for reusing the pending block b
reusePending(b, latestBlock) ==
    b /= Nil /\ (latestBlock = Nil \/ b.height = latestBlock.height + 1)

\* The test for an empty block left out
isEmptyBlockNever(b) == FALSE

\* len(b.Transactions) == 0
isEmptyBlock(b) == Len(b.txs) = 0

\* Signatures asked for the initial block too
noSignaturesNeededNever(b, prevBlock) == FALSE

\* prevBlock == nil && b.Height == 1
noSignaturesNeeded(b, prevBlock) == prevBlock = Nil /\ b.height = 1

\* tooFewSigners off by one: one signer short passes
tooFewSignersByTwo(n, quorum) == n + 1 < quorum

\* len(g.signers) < quorum
tooFewSigners(n, quorum) == n < quorum

\* collectOne without the test that the key's slot is still empty
collectOneAnySlot(r, sig) ==
    LET k == indexKey(r.pubkeys, r.hashForSig, sig)
    IN IF sig = Nil
       THEN r
       ELSE IF k >= 0
       THEN [r EXCEPT !.goodSigs[k + 1] = sig, !.nready = @ + 1]
       ELSE [r EXCEPT !.logged = @ + 1]

\* collectOne with a plain else: a signature for a filled slot is logged too
collectOneLogFilled(r, sig) ==
    LET k == indexKey(r.pubkeys, r.hashForSig, sig)
    IN IF sig = Nil
       THEN r
       ELSE IF k >= 0 /\ r.goodSigs[k + 1] = Nil
       THEN [r EXCEPT !.goodSigs[k + 1] = sig, !.nready = @ + 1]
       ELSE [r EXCEPT !.logged = @ + 1]

\* The body of the collection loop for the reply sig on the round's locals r.
collectOne(r, sig) ==
    LET k == indexKey(r.pubkeys, r.hashForSig, sig)
    IN IF sig = Nil
       THEN r
       ELSE IF k >= 0 /\ r.goodSigs[k + 1] = Nil
       THEN [r EXCEPT !.goodSigs[k + 1] = sig, !.nready = @ + 1]
       ELSE IF k < 0
       THEN [r EXCEPT !.logged = @ + 1]
       ELSE r

\* Bytes marshalled again for every signer, with the signer's index in them
signBytesPerSigner(marshalledBlock, i) == [block |-> marshalledBlock.block, signer |-> i]

\* go getSig(ctx, signer, marshalledBlock, ...): the bytes handed to signer i
signBytes(marshalledBlock, i) == marshalledBlock

\* An unbuffered completion queue: make(chan int)
chanCapUnbuffered(n) == 0

\* done := make(chan int, len(g.signers)): the capacity of the completion queue
chanCap(n) == n

\* The loop going on until every signer's completion is consumed
collectingAll(r, n) == r.i < n

\* The loop condition: i < len(g.signers) && nready < quorum
collecting(r, n) == r.i < n /\ r.nready < r.quorum

\* quorumMissed off by one: a round one signature short passes
quorumMissedByTwo(nready, quorum) == nready + 1 < quorum

\* The test after the loop: whether collection failed
quorumMissed(nready, quorum) == nready < quorum

\* ------------------------------------------------------------- state
VARIABLES
    chainBlock,     \* g.chain.State(): the head block, or Nil
    chainSnapshot,  \* g.chain.State(): the head snapshot
    committed,      \* hashes of the blocks CommitAppliedBlock accepted
    savedBlocks,    \* hashes of the blocks savePendingBlock accepted
    sentBytes,      \* every (block hash, bytes) pair passed to a getSig goroutine
    pendingRow,     \* generator_pending_block: Nil or [data, height]
    program,        \* the federation's consensus program
    nsigners,       \* len(g.signers)
    pool,           \* g.pool of every generator
    poolHashes,     \* g.poolHashes of every generator
    gen,            \* locals of every generator's MakeBlock call
    round,          \* locals of every generator's signing round
    result,         \* what the last MakeBlock call returned
    cyc             \* what the current MakeBlock call has done so far

vars == <<chainBlock, chainSnapshot, committed, savedBlocks, sentBytes, pendingRow, program,
          nsigners, pool, poolHashes, gen, round, result, cyc>>

NoResult == [status |-> "none", wrap |-> "", cause |-> "", hash |-> Nil, got |-> 0, needed |-> 0]
Ok(h) == [status |-> "ok", wrap |-> "", cause |-> "", hash |-> h, got |-> 0, needed |-> 0]
Err(wrap, cause) == [status |-> "error", wrap |-> wrap, cause |-> cause, hash |-> Nil, got |-> 0, needed |-> 0]
\* fmt.Errorf("got %d of %d needed signatures", nready, quorum)
ErrQuorum(got, needed) == [status |-> "error", wrap |-> "sign", cause |-> "got of needed", hash |-> Nil, got |-> got, needed |-> needed]
NoCyc == [path |-> "none", read |-> Nil, generated |-> FALSE, saveCalls |-> 0,
          saved |-> Nil, signCalls |-> 0, signReqs |-> 0, commitCalls |-> 0, commitOk |-> Nil]
NoGen == [pc |-> "idle", time |-> 0, latestBlock |-> Nil, latestSnapshot |-> Nil,
          b |-> Nil, s |-> Nil, txs |-> <<>>]
NoRound == [pubkeys |-> <<>>, quorum |-> 0, hashForSig |-> Nil, msg |-> Nil, sent |-> <<>>,
            goodSigs |-> <<>>, replies |-> <<>>, st |-> <<>>, done |-> <<>>, taken |-> <<>>,
            i |-> 0, nready |-> 0, logged |-> 0, cancelled |-> FALSE]

\* A new chain and an empty pending-block table; `started` are the generator
\* instances that run.
InitWith(started, programs, signers) ==
    /\ chainBlock = Nil
    /\ chainSnapshot = EmptySnapshot
    /\ committed = {}
    /\ savedBlocks = {}
    /\ sentBytes = {}
    /\ pendingRow = Nil
    /\ program \in programs
    /\ nsigners \in signers
    /\ pool = [g \in Gens |-> <<>>]
    /\ poolHashes = [g \in Gens |-> {}]
    /\ gen = [g \in Gens |-> IF g \in started THEN NoGen ELSE [NoGen EXCEPT !.pc = "off"]]
    /\ round = [g \in Gens |-> NoRound]
    /\ result = [g \in Gens |-> NoResult]
    /\ cyc = [g \in Gens |-> NoCyc]

\* One generator, every consensus program, every number of signers.
Init == InitWith({1}, Programs \cup {BadProgram}, 1..MaxSigners)

\* Several generators that share the chain and the pending-block table.
InitShared == InitWith(Gens, {p \in Programs : p.quorum = 1 /\ Len(p.pubkeys) = 1}, {1})

\* ------------------------------------------------------------- actions
\* MakeBlock returns res to its caller.
Return(g, res) ==
    /\ gen' = [gen EXCEPT ![g].pc = "idle"]
    /\ result' = [result EXCEPT ![g] = res]

\* Generator.Submit: a transaction not yet in the pool is appended to it.
Submit(g, tx) ==
    /\ gen[g].pc \notin {"off", "fatal", "panic"}
    /\ tx \notin poolHashes[g]
    /\ pool' = [pool EXCEPT ![g] = Append(@, tx)]
    /\ poolHashes' = [poolHashes EXCEPT ![g] = @ \cup {tx}]
    /\ UNCHANGED <<chainBlock, chainSnapshot, committed, savedBlocks, sentBytes, pendingRow, program,
                   nsigners, gen, round, result, cyc>>

\* MakeBlock is called with a time: it reads the chain's state.  Goroutines
\* of an earlier signing round that are still running work on slots and a
\* queue nothing refers to any more; they are followed no further.
MakeBlock(g, time) ==
    /\ gen[g].pc = "idle"
    /\ gen' = [gen EXCEPT ![g] = [NoGen EXCEPT !.pc = "getPending", !.time = time,
                                               !.latestBlock = chainBlock,
                                               !.latestSnapshot = chainSnapshot]]
    /\ result' = [result EXCEPT ![g] = NoResult]
    /\ cyc' = [cyc EXCEPT ![g] = NoCyc]
    /\ round' = [round EXCEPT ![g] = NoRound]
    /\ UNCHANGED <<chainBlock, chainSnapshot, committed, savedBlocks, sentBytes, pendingRow, program,
                   nsigners, pool, poolHashes>>

\* getPendingBlock and the test that chooses between recovery and generation.
getPendingBlock(g, ioError) ==
    /\ gen[g].pc = "getPending"
    /\ IF ioError
       THEN /\ Return(g, Err("retrieving the pending block", "io"))
            /\ UNCHANGED cyc
       ELSE LET b == IF pendingRow = Nil THEN Nil ELSE pendingRow.data
                latestBlock == gen[g].latestBlock
                reuse == reusePending(b, latestBlock)
            IN /\ gen' = [gen EXCEPT ![g].b = b,
                                     ![g].pc = IF reuse THEN "recover" ELSE "swap"]
               /\ cyc' = [cyc EXCEPT ![g].read = b]
               /\ UNCHANGED result
    /\ UNCHANGED <<chainBlock, chainSnapshot, committed, savedBlocks, sentBytes, pendingRow, program,
                   nsigners, pool, poolHashes, round>>

\* The recovery branch going on to generate a block when ApplyBlock fails
RecoverOrGenerate(g, applyOk) ==
    /\ gen[g].pc = "recover"
    /\ LET s == workingSnapshot(gen[g].latestSnapshot)
           after == Applied(s.val, gen[g].b)
       IN IF applyOk
          THEN /\ gen' = [gen EXCEPT ![g].s = [s EXCEPT !.val = after], ![g].pc = "sign"]
               /\ chainSnapshot' = IF s.shared /\ chainSnapshot = gen[g].latestSnapshot
                                   THEN after ELSE chainSnapshot
          ELSE /\ gen' = [gen EXCEPT ![g].s = s, ![g].pc = "swap"]
               /\ UNCHANGED chainSnapshot
    /\ cyc' = [cyc EXCEPT ![g].path = "recover"]
    /\ UNCHANGED <<chainBlock, committed, savedBlocks, sentBytes, pendingRow, program, nsigners,
                   pool, poolHashes, round, result>>

\* The recovery branch: the pending block is applied to a copy of the head
\* snapshot; a failure of ApplyBlock ends the process (log.Fatalkv).
Recover(g, applyOk) ==
    /\ gen[g].pc = "recover"
    /\ LET s == workingSnapshot(gen[g].latestSnapshot)
           after == Applied(s.val, gen[g].b)
       IN IF applyOk
          THEN /\ gen' = [gen EXCEPT ![g].s = [s EXCEPT !.val = after], ![g].pc = "sign"]
               /\ chainSnapshot' = IF s.shared /\ chainSnapshot = gen[g].latestSnapshot
                                   THEN after ELSE chainSnapshot
          ELSE /\ gen' = [gen EXCEPT ![g].s = s, ![g].pc = "fatal"]
               /\ UNCHANGED chainSnapshot
    /\ cyc' = [cyc EXCEPT ![g].path = "recover"]
    /\ UNCHANGED <<chainBlock, committed, savedBlocks, sentBytes, pendingRow, program, nsigners,
                   pool, poolHashes, round, result>>

\* The pool taken without a new hash index
TakePoolKeepIndex(g) ==
    /\ gen[g].pc = "swap"
    /\ gen' = [gen EXCEPT ![g].txs = pool[g], ![g].pc = "generate"]
    /\ pool' = [pool EXCEPT ![g] = <<>>]
    /\ cyc' = [cyc EXCEPT ![g].path = "fresh"]
    /\ UNCHANGED <<chainBlock, chainSnapshot, committed, savedBlocks, sentBytes, pendingRow, program,
                   nsigners, poolHashes, round, result>>

\* The generation branch, first step: under g.mu the pool and its hash index
\* are taken and replaced by empty ones.
TakePool(g) ==
    /\ gen[g].pc = "swap"
    /\ gen' = [gen EXCEPT ![g].txs = pool[g], ![g].pc = "generate"]
    /\ pool' = [pool EXCEPT ![g] = <<>>]
    /\ poolHashes' = [poolHashes EXCEPT ![g] = {}]
    /\ cyc' = [cyc EXCEPT ![g].path = "fresh"]
    /\ UNCHANGED <<chainBlock, chainSnapshot, committed, savedBlocks, sentBytes, pendingRow, program,
                   nsigners, round, result>>

\* g.chain.GenerateBlock: an error, or the next block over some of the
\* transactions and the snapshot it leads to.
NewBlock(latestBlock, time, txs, prog) ==
    [height |-> HeightOf(latestBlock) + 1, time |-> time, txs |-> txs,
     cp |-> IF latestBlock = Nil THEN prog ELSE latestBlock.cp, witness |-> <<>>]

GenerateBlock(g, genOk, txs) ==
    /\ gen[g].pc = "generate"
    /\ txs \in SubSeqs(gen[g].txs)
    /\ IF ~genOk
       THEN /\ txs = <<>>
            /\ Return(g, Err("generate", "chain"))
            /\ UNCHANGED cyc
       ELSE /\ HeightOf(gen[g].latestBlock) < MaxHeight
            /\ LET b == NewBlock(gen[g].latestBlock, gen[g].time, txs, program)
                   s == [shared |-> FALSE, val |-> Applied(gen[g].latestSnapshot, b)]
               IN IF isEmptyBlock(b)
                  THEN \* don't bother making an empty block
                       /\ gen' = [gen EXCEPT ![g].b = b, ![g].s = s, ![g].pc = "idle"]
                       /\ result' = [result EXCEPT ![g] = Ok(Hash(b))]
                  ELSE /\ gen' = [gen EXCEPT ![g].b = b, ![g].s = s, ![g].pc = "save"]
                       /\ UNCHANGED result
            /\ cyc' = [cyc EXCEPT ![g].generated = TRUE]
    /\ UNCHANGED <<chainBlock, chainSnapshot, committed, savedBlocks, sentBytes, pendingRow, program,
                   nsigners, pool, poolHashes, round>>

\* MakeBlock going on to sign whatever savePendingBlock returned
savePendingBlockUnchecked(g, ioError) ==
    /\ gen[g].pc = "save"
    /\ LET r == IF ioError THEN [row |-> pendingRow, affected |-> 0]
                ELSE Upsert(pendingRow, gen[g].b)
       IN /\ pendingRow' = r.row
          /\ gen' = [gen EXCEPT ![g].pc = "sign"]
          /\ cyc' = [cyc EXCEPT ![g].saveCalls = @ + 1,
                                ![g].saved = IF r.affected = 0 THEN Nil ELSE Hash(gen[g].b)]
          /\ savedBlocks' = IF r.affected = 0 THEN savedBlocks
                            ELSE savedBlocks \cup {Hash(gen[g].b)}
    /\ UNCHANGED <<chainBlock, chainSnapshot, committed, sentBytes, program, nsigners, pool,
                   poolHashes, round, result>>

\* savePendingBlock and MakeBlock's handling of its error.
savePendingBlock(g, ioError) ==
    /\ gen[g].pc = "save"
    /\ IF ioError
       THEN /\ Return(g, Err("saving pending block", "io"))
            /\ cyc' = [cyc EXCEPT ![g].saveCalls = @ + 1]
            /\ UNCHANGED <<pendingRow, savedBlocks>>
       ELSE LET r == Upsert(pendingRow, gen[g].b)
            IN /\ pendingRow' = r.row
               /\ IF r.affected = 0
                  THEN /\ Return(g, Err("saving pending block", "errDuplicateBlock"))
                       /\ cyc' = [cyc EXCEPT ![g].saveCalls = @ + 1]
                       /\ UNCHANGED savedBlocks
                  ELSE /\ gen' = [gen EXCEPT ![g].pc = "sign"]
                       /\ cyc' = [cyc EXCEPT ![g].saveCalls = @ + 1,
                                             ![g].saved = Hash(gen[g].b)]
                       /\ savedBlocks' = savedBlocks \cup {Hash(gen[g].b)}
                       /\ UNCHANGED result
    /\ UNCHANGED <<chainBlock, chainSnapshot, committed, sentBytes, program, nsigners, pool,
                   poolHashes, round>>

\* getAndAddBlockSignatures up to the launch of the getSig goroutines.
\* A missing previous block with a candidate above height 1 is a nil
\* dereference at prevBlock.ConsensusProgram.
getAndAddBlockSignatures(g, marshalOk) ==
    /\ gen[g].pc = "sign"
    /\ LET b == gen[g].b
           prevBlock == gen[g].latestBlock
       IN IF noSignaturesNeeded(b, prevBlock)
          THEN \* no signatures needed for initial block
               /\ marshalOk
               /\ gen' = [gen EXCEPT ![g].pc = "commit"]
               /\ cyc' = [cyc EXCEPT ![g].signCalls = @ + 1]
               /\ UNCHANGED <<round, result>>
          ELSE IF prevBlock = Nil
          THEN /\ marshalOk
               /\ gen' = [gen EXCEPT ![g].pc = "panic"]
               /\ cyc' = [cyc EXCEPT ![g].signCalls = @ + 1]
               /\ UNCHANGED <<round, result>>
          ELSE LET p == ParseBlockMultiSigProgram(prevBlock.cp)
               IN IF p.err
                  THEN /\ marshalOk
                       /\ Return(g, Err("sign", "parsing prevblock output script"))
                       /\ cyc' = [cyc EXCEPT ![g].signCalls = @ + 1]
                       /\ UNCHANGED round
                  ELSE IF tooFewSigners(nsigners, p.quorum)
                  THEN /\ marshalOk
                       /\ Return(g, Err("sign", "errTooFewSigners"))
                       /\ cyc' = [cyc EXCEPT ![g].signCalls = @ + 1]
                       /\ UNCHANGED round
                  ELSE IF ~marshalOk
                  THEN /\ Return(g, Err("sign", "marshalling block"))
                       /\ cyc' = [cyc EXCEPT ![g].signCalls = @ + 1]
                       /\ UNCHANGED round
                  ELSE /\ round' = [round EXCEPT ![g] =
                              [pubkeys |-> p.pubkeys, quorum |-> p.quorum,
                               hashForSig |-> Hash(b), msg |-> MarshalText(b),
                               sent |-> [i \in 1..nsigners |-> signBytes(MarshalText(b), i)],
                               goodSigs |-> [k \in 1..Len(p.pubkeys) |-> Nil],
                               replies |-> [i \in 1..nsigners |-> Nil],
                               st |-> [i \in 1..nsigners |-> "running"],
                               done |-> <<>>, taken |-> <<>>, i |-> 0, nready |-> 0, logged |-> 0,
                               cancelled |-> FALSE]]
                       /\ gen' = [gen EXCEPT ![g].pc = "collect"]
                       /\ cyc' = [cyc EXCEPT ![g].signCalls = @ + 1, ![g].signReqs = nsigners]
                       /\ UNCHANGED result
    /\ sentBytes' = sentBytes \cup {[block |-> round'[g].hashForSig, bytes |-> round'[g].sent[i],
                                      path |-> cyc[g].path] : i \in 1..Len(round'[g].sent)}
    /\ UNCHANGED <<chainBlock, chainSnapshot, committed, savedBlocks, pendingRow, program,
                   nsigners, pool, poolHashes>>

\* getSig, first half: signer.SignBlock returns and its result (a
\* signature, or nil with an error) is stored in the signer's reply slot.
SignBlock(g, i, choice) ==
    /\ i \in 1..Len(round[g].st)
    /\ round[g].st[i] = "running"
    /\ round' = [round EXCEPT ![g].replies[i] = Reply(choice, round[g].sent[i]),
                              ![g].st[i] = "signed"]
    /\ UNCHANGED <<chainBlock, chainSnapshot, committed, savedBlocks, sentBytes, pendingRow, program,
                   nsigners, pool, poolHashes, gen, result, cyc>>

\* getSig posting its index only when SignBlock returned a signature
getSigOnSuccessOnly(g, i) ==
    /\ i \in 1..Len(round[g].st)
    /\ round[g].st[i] = "signed"
    /\ round[g].replies[i] /= Nil
    /\ Len(round[g].done) < chanCap(Len(round[g].st))
    /\ round' = [round EXCEPT ![g].done = Append(@, i), ![g].st[i] = "posted"]
    /\ UNCHANGED <<chainBlock, chainSnapshot, committed, savedBlocks, sentBytes, pendingRow, program,
                   nsigners, pool, poolHashes, gen, result, cyc>>

\* getSig, second half: done <- i, which waits while the queue is full
getSig(g, i) ==
    /\ i \in 1..Len(round[g].st)
    /\ round[g].st[i] = "signed"
    /\ Len(round[g].done) < chanCap(Len(round[g].st))
    /\ round' = [round EXCEPT ![g].done = Append(@, i), ![g].st[i] = "posted"]
    /\ UNCHANGED <<chainBlock, chainSnapshot, committed, savedBlocks, sentBytes, pendingRow, program,
                   nsigners, pool, poolHashes, gen, result, cyc>>

\* The context MakeBlock was called with is cancelled by its owner: the
\* context derived from it by context.WithCancel, which the getSig
\* goroutines share, is done from then on.  The collection loop does not
\* look at it.
CancelCtx(g) ==
    /\ gen[g].pc = "collect"
    /\ ~round[g].cancelled
    /\ round' = [round EXCEPT ![g].cancelled = TRUE]
    /\ UNCHANGED <<chainBlock, chainSnapshot, committed, savedBlocks, sentBytes, pendingRow, program,
                   nsigners, pool, poolHashes, gen, result, cyc>>

\* One iteration of the collection loop: a completion is received and the
\* reply in its slot is matched against the keys.
Collect(g) ==
    /\ gen[g].pc = "collect"
    /\ collecting(round[g], nsigners)
    /\ round[g].done /= <<>>
    /\ LET r == round[g]
           sig == r.replies[Head(r.done)]
       IN round' = [round EXCEPT ![g] =
              [collectOne(r, sig) EXCEPT !.done = Tail(r.done), !.i = r.i + 1,
                                         !.taken = Append(r.taken, Head(r.done))]]
    /\ UNCHANGED <<chainBlock, chainSnapshot, committed, savedBlocks, sentBytes, pendingRow, program,
                   nsigners, pool, poolHashes, gen, result, cyc>>

\* The loop has ended: the quorum test, the witness, and the deferred cancel.
CollectEnd(g) ==
    /\ gen[g].pc = "collect"
    /\ ~collecting(round[g], nsigners)
    /\ round' = [round EXCEPT ![g].cancelled = TRUE]
    /\ IF quorumMissed(round[g].nready, round[g].quorum)
       THEN Return(g, ErrQuorum(round[g].nready, round[g].quorum))
       ELSE /\ gen' = [gen EXCEPT ![g].b.witness = nonNilSigs(round[g].goodSigs),
                                  ![g].pc = "commit"]
            /\ UNCHANGED result
    /\ UNCHANGED <<chainBlock, chainSnapshot, committed, savedBlocks, sentBytes, pendingRow, program,
                   nsigners, pool, poolHashes, cyc>>

\* commitBlock after signing: g.chain.CommitAppliedBlock and the return.
commitBlock(g, commitOk) ==
    /\ gen[g].pc = "commit"
    /\ IF commitOk
       THEN /\ committed' = committed \cup {Hash(gen[g].b)}
            /\ chainBlock' = gen[g].b
            /\ chainSnapshot' = gen[g].s.val
            /\ Return(g, Ok(Hash(gen[g].b)))
            /\ cyc' = [cyc EXCEPT ![g].commitCalls = @ + 1, ![g].commitOk = Hash(gen[g].b)]
       ELSE /\ Return(g, Err("commit", "chain"))
            /\ cyc' = [cyc EXCEPT ![g].commitCalls = @ + 1]
            /\ UNCHANGED <<committed, chainBlock, chainSnapshot>>
    /\ UNCHANGED <<savedBlocks, sentBytes, pendingRow, program, nsigners, pool, poolHashes, round>>

Next ==
    \E g \in Gens :
        \/ \E tx \in TxIds : Submit(g, tx)
        \/ \E time \in Times : MakeBlock(g, time)
        \/ \E ioError \in BOOLEAN : getPendingBlock(g, ioError)
        \/ \E applyOk \in BOOLEAN : Recover(g, applyOk)
        \/ TakePool(g)
        \/ \E genOk \in BOOLEAN : \E txs \in SubSeqs(gen[g].txs) : GenerateBlock(g, genOk, txs)
        \/ \E ioError \in BOOLEAN : savePendingBlock(g, ioError)
        \/ \E marshalOk \in BOOLEAN : getAndAddBlockSignatures(g, marshalOk)
        \/ \E i \in 1..MaxSigners : \E choice \in ReplyChoices : SignBlock(g, i, choice)
        \/ \E i \in 1..MaxSigners : getSig(g, i)
        \/ CancelCtx(g)
        \/ Collect(g)
        \/ CollectEnd(g)
        \/ \E commitOk \in BOOLEAN : commitBlock(g, commitOk)

Spec == Init /\ [][Next]_vars

SpecShared == InitShared /\ [][Next]_vars

\* Every SignBlock request returns, every goroutine that can take a step
\* takes it, and CommitAppliedBlock returns.
SpecFair ==
    /\ Init
    /\ [][Next]_vars
    /\ \A g \in Gens :
          /\ WF_vars(\E i \in 1..MaxSigners : \E choice \in ReplyChoices : SignBlock(g, i, choice))
          /\ WF_vars(\E i \in 1..MaxSigners : getSig(g, i))
          /\ WF_vars(Collect(g))
          /\ WF_vars(CollectEnd(g))
          /\ WF_vars(\E commitOk \in BOOLEAN : commitBlock(g, commitOk))

\* ------------------------------------------------------------- properties
\* The key set and quorum of the previous block's consensus program, as
\* generator g sees the previous block.
PrevKeys(g) == ParseBlockMultiSigProgram(gen[g].latestBlock.cp).pubkeys
PrevQuorum(g) == ParseBlockMultiSigProgram(gen[g].latestBlock.cp).quorum

\* The indices of the keys of g's key set under which some signer's reply
\* of the current round verifies.
KeysReplied(g) ==
    {k \in 1..Len(PrevKeys(g)) :
        \E i \in 1..Len(round[g].replies) :
            /\ round[g].replies[i] /= Nil
            /\ Verify(PrevKeys(g)[k], Hash(gen[g].b), round[g].replies[i])}

\* w has exactly m entries, each verifying over msg under a different key of keys.
WitnessOf(w, m, keys, msg) ==
    /\ Len(w) = m
    /\ \E f \in [1..Len(w) -> 1..Len(keys)] :
          /\ \A a, c \in 1..Len(w) : a /= c => f[a] /= f[c]
          /\ \A a \in 1..Len(w) : Verify(keys[f[a]], msg, w[a])

\* g's current MakeBlock call has collected signatures and gone on to commit.
Signed(g) == cyc[g].signReqs > 0 /\ (gen[g].pc = "commit" \/ cyc[g].commitCalls > 0)

\* C1: when at least M signers reply with signatures that verify under
\* pairwise distinct keys of the previous block's consensus program, in any
\* reply order and among absent or invalid replies, collection does not fail;
\* the witness attached then has exactly M entries, each verifying under a
\* different key; and MakeBlock returns the block's hash when
\* CommitAppliedBlock succeeds.
C1_QuorumReached ==
    \A g \in Gens :
        /\ (result[g].cause = "got of needed") => Cardinality(KeysReplied(g)) < PrevQuorum(g)
        /\ Signed(g) => WitnessOf(gen[g].b.witness, PrevQuorum(g), PrevKeys(g), Hash(gen[g].b))
        /\ (cyc[g].commitOk /= Nil) => result[g] = Ok(Hash(gen[g].b))

\* C1 witness: with two signers and a quorum of one, the first completion
\* carried no usable signature, the second one filled the quorum, and the
\* block was committed.
C1_Witness ==
    \E g \in Gens :
        /\ result[g].status = "ok"
        /\ cyc[g].signReqs = 2
        /\ round[g].quorum = 1
        /\ round[g].i = 2
        /\ Len(gen[g].b.witness) = 1

\* The number of keys whose slot the current round has filled
Matched(g) == Cardinality({k \in 1..Len(round[g].goodSigs) : round[g].goodSigs[k] /= Nil})

\* C2: a round that ends with fewer than M keys matched makes MakeBlock
\* return the error reporting the matched count and M; nothing is committed
\* in that cycle, the block's witness stays unset and the pending row still
\* holds the block; a cycle goes on to commit only with M keys matched.
C2_QuorumMissed ==
    \A g \in Gens :
        /\ (result[g].cause = "got of needed") =>
              /\ result[g] = ErrQuorum(Matched(g), PrevQuorum(g))
              /\ Matched(g) < PrevQuorum(g)
              /\ round[g].i = nsigners
              /\ cyc[g].commitCalls = 0
              /\ gen[g].b.witness = <<>>
              /\ pendingRow = [data |-> gen[g].b, height |-> gen[g].b.height]
        /\ Signed(g) => Matched(g) = PrevQuorum(g)

\* C2 witness: both signers replied, one key of two needed was matched, and
\* MakeBlock returned the error.
C2_Witness ==
    \E g \in Gens :
        /\ result[g] = ErrQuorum(1, 2)
        /\ round[g].i = 2
        /\ pendingRow /= Nil

\* C3: no two different blocks of the same height are both committed, and
\* no two different blocks of the same height both get past savePendingBlock.
C3_OneBlockPerHeight ==
    /\ \A x, y \in committed : x.height = y.height => x = y
    /\ \A x, y \in savedBlocks : x.height = y.height => x = y

\* C3 witness: two generators generated different blocks for the same
\* height; one was turned away by savePendingBlock, the other one committed.
C3_Witness ==
    \E g, h \in Gens :
        /\ g /= h
        /\ result[g] = Err("saving pending block", "errDuplicateBlock")
        /\ cyc[h].commitOk /= Nil
        /\ cyc[h].generated
        /\ cyc[h].commitOk.height = gen[g].b.height
        /\ cyc[h].commitOk /= Hash(gen[g].b)

\* A step in which g's call of savePendingBlock returns
SaveReturns(g) == gen[g].pc = "save" /\ gen'[g].pc /= "save"

\* C4: savePendingBlock replaces the row exactly when there is none or the
\* stored height is below the block's; otherwise the row is left as it is
\* and the call returns the duplicate-block error, not an I/O error.  The
\* stored height never decreases and a stored block is never replaced by
\* another one of its height.
C4_ConditionalUpsert ==
    [][ /\ \A g \in Gens :
             (SaveReturns(g) /\ result'[g].cause /= "io") =>
                IF pendingRow = Nil \/ pendingRow.height < gen[g].b.height
                THEN /\ pendingRow' = [data |-> gen[g].b, height |-> gen[g].b.height]
                     /\ gen'[g].pc = "sign"
                ELSE /\ pendingRow' = pendingRow
                     /\ result'[g] = Err("saving pending block", "errDuplicateBlock")
        /\ HeightOf(pendingRow') >= HeightOf(pendingRow)
        /\ (HeightOf(pendingRow') = HeightOf(pendingRow)) => pendingRow' = pendingRow
      ]_vars

\* C4 witness: savePendingBlock has turned away a block because the row
\* holds another block of the same height.
C4_Witness ==
    \E g \in Gens :
        /\ result[g] = Err("saving pending block", "errDuplicateBlock")
        /\ pendingRow.height = gen[g].b.height
        /\ pendingRow.data /= gen[g].b

\* The block g read from the pending store is the next block of g's head.
PendingIsNext(g) ==
    /\ cyc[g].read /= Nil
    /\ cyc[g].read.height = HeightOf(gen[g].latestBlock) + 1

\* C5: when the pending store holds the block P of height head+1, MakeBlock
\* neither generates a block nor writes the pending store; it applies P to a
\* copy of the head snapshot, leaving the head snapshot as it is, asks the
\* signers to sign P, and commits and returns P.
C5_Recovery ==
    /\ [](\A g \in Gens :
            PendingIsNext(g) =>
               /\ gen[g].pc /= "swap"
               /\ cyc[g].path /= "fresh"
               /\ ~cyc[g].generated
               /\ cyc[g].saveCalls = 0
               /\ pendingRow = [data |-> cyc[g].read, height |-> cyc[g].read.height]
               /\ Hash(gen[g].b) = Hash(cyc[g].read)
               /\ (cyc[g].signReqs > 0) => round[g].msg = MarshalText(cyc[g].read)
               /\ (cyc[g].commitOk /= Nil) => cyc[g].commitOk = Hash(cyc[g].read)
               /\ (result[g].status = "ok") => result[g].hash = Hash(cyc[g].read))
    /\ [][\A g \in Gens :
            (gen[g].pc = "recover" /\ gen'[g].pc = "sign") =>
               /\ chainSnapshot' = chainSnapshot
               /\ gen'[g].s.val = Applied(gen[g].latestSnapshot, gen[g].b)
               /\ gen'[g].latestSnapshot = gen[g].latestSnapshot]_vars

\* C5 witness: a pending block above an existing head was recovered, signed
\* and committed.
C5_Witness ==
    \E g \in Gens :
        /\ PendingIsNext(g)
        /\ gen[g].latestBlock /= Nil
        /\ cyc[g].path = "recover"
        /\ cyc[g].signReqs > 0
        /\ cyc[g].commitOk = Hash(cyc[g].read)

\* C6: on the generation path no SignBlock request is issued unless
\* savePendingBlock has returned success for the same block; a cycle whose
\* savePendingBlock fails returns an error without any SignBlock request or
\* commit.
C6_SaveBeforeSign ==
    \A g \in Gens :
        /\ (cyc[g].path = "fresh" /\ cyc[g].signCalls > 0) =>
              /\ cyc[g].saved = Hash(gen[g].b)
              /\ cyc[g].saved \in savedBlocks
        /\ (cyc[g].path = "fresh" /\ cyc[g].saveCalls > 0 /\ cyc[g].saved = Nil) =>
              /\ gen[g].pc = "idle"
              /\ result[g].status = "error"
              /\ result[g].wrap = "saving pending block"
              /\ cyc[g].signCalls = 0
              /\ cyc[g].signReqs = 0
              /\ cyc[g].commitCalls = 0

\* C6 witness: a generated block was saved and SignBlock requests for it
\* are out.
C6_Witness ==
    \E g \in Gens :
        /\ gen[g].pc = "collect"
        /\ cyc[g].path = "fresh"
        /\ cyc[g].saved = Hash(gen[g].b)
        /\ cyc[g].signReqs > 0

\* g's previous block has a consensus program that parses and asks for more
\* signatures than there are signers.
SignersShort(g) ==
    /\ gen[g].latestBlock /= Nil
    /\ ~ParseBlockMultiSigProgram(gen[g].latestBlock.cp).err
    /\ nsigners < PrevQuorum(g)

\* C7: with fewer signers configured than the quorum, MakeBlock returns the
\* too-few-signers error; no SignBlock request is issued and no commit is
\* attempted.
C7_TooFewSigners ==
    \A g \in Gens :
        SignersShort(g) =>
           /\ gen[g].pc \notin {"collect", "commit"}
           /\ cyc[g].signReqs = 0
           /\ cyc[g].commitCalls = 0
           /\ (cyc[g].signCalls > 0) =>
                 /\ gen[g].pc = "idle"
                 /\ result[g] = Err("sign", "errTooFewSigners")

\* C7 witness: one signer, a quorum of two, and MakeBlock has returned the
\* error.
C7_Witness ==
    \E g \in Gens :
        /\ SignersShort(g)
        /\ cyc[g].signCalls > 0
        /\ result[g] = Err("sign", "errTooFewSigners")

\* g sees no head block and its candidate is a block of height 1 with
\* transactions.
InitialBlock(g) ==
    /\ gen[g].latestBlock = Nil
    /\ gen[g].b /= Nil
    /\ gen[g].b.height = 1
    /\ Len(gen[g].b.txs) > 0

\* C8: for the initial block MakeBlock issues no SignBlock request and
\* passes the block to CommitAppliedBlock with an empty witness.
C8_InitialBlock ==
    \A g \in Gens :
        (InitialBlock(g) /\ gen[g].pc /= "off") =>
           /\ cyc[g].signReqs = 0
           /\ gen[g].b.witness = <<>>
           /\ gen[g].pc \notin {"collect", "panic"}
           /\ (cyc[g].signCalls > 0) =>
                 /\ gen[g].pc = "commit" \/ cyc[g].commitCalls = 1
                 /\ result[g].wrap /= "sign"

\* C8 witness: the initial block was committed without a signature.
C8_Witness ==
    \E g \in Gens :
        /\ InitialBlock(g)
        /\ cyc[g].commitOk = Hash(gen[g].b)
        /\ cyc[g].signReqs = 0
        /\ nsigners > 0

\* C9: a generated block without transactions makes MakeBlock return its
\* hash and no error, without a write of the pending store, a SignBlock
\* request or a commit; the pending store never holds and the chain never
\* gets a block without transactions.
C9_EmptyBlock ==
    /\ pendingRow /= Nil => Len(pendingRow.data.txs) > 0
    /\ \A x \in committed \cup savedBlocks : Len(x.txs) > 0
    /\ \A g \in Gens :
          (cyc[g].generated /\ gen[g].b /= Nil /\ Len(gen[g].b.txs) = 0) =>
             /\ gen[g].pc = "idle"
             /\ result[g] = Ok(Hash(gen[g].b))
             /\ cyc[g].saveCalls = 0
             /\ cyc[g].signCalls = 0
             /\ cyc[g].signReqs = 0
             /\ cyc[g].commitCalls = 0

\* C9 witness: GenerateBlock left out the only transaction taken from the
\* pool and MakeBlock returned the empty block's hash.
C9_Witness ==
    \E g \in Gens :
        /\ cyc[g].generated
        /\ gen[g].txs /= <<>>
        /\ gen[g].b.txs = <<>>
        /\ result[g] = Ok(Hash(gen[g].b))

\* The reply the next iteration of g's collection loop takes up
NextReply(g) == round[g].replies[Head(round[g].done)]

\* sig verifies under no key of g's key set
Invalid(g, sig) ==
    /\ sig /= Nil
    /\ \A k \in 1..Len(PrevKeys(g)) : ~Verify(PrevKeys(g)[k], Hash(gen[g].b), sig)

\* C10: a reply whose signature verifies under no key fills no slot, leaves
\* the count of matched keys as it is and does not make the cycle return;
\* a round in which such a reply came still reaches the quorum when M
\* replies verify under distinct keys.
C10_InvalidDiscarded ==
    /\ [][\A g \in Gens :
            (/\ gen[g].pc = "collect"
             /\ round[g].done /= <<>>
             /\ round'[g].i = round[g].i + 1
             /\ Invalid(g, NextReply(g))) =>
               /\ round'[g].goodSigs = round[g].goodSigs
               /\ round'[g].nready = round[g].nready
               /\ gen'[g] = gen[g]
               /\ result'[g] = result[g]]_vars
    /\ [](\A g \in Gens :
            (/\ gen[g].pc = "idle"
             /\ cyc[g].signReqs > 0
             /\ \E i \in 1..Len(round[g].replies) : Invalid(g, round[g].replies[i])
             /\ Cardinality(KeysReplied(g)) >= PrevQuorum(g)) =>
               result[g].cause /= "got of needed")

\* C10 witness: the first reply taken up was invalid, the second one filled
\* the quorum, and the block went on to commit.
C10_Witness ==
    \E g \in Gens :
        /\ gen[g].pc = "commit"
        /\ cyc[g].signReqs = 2
        /\ round[g].logged = 1
        /\ round[g].nready = 1
        /\ round[g].quorum = 1

\* The bytes the signers of g's round were handed.
BytesOfRound(g) == {round[g].sent[i] : i \in 1..Len(round[g].sent)}

\* C11: the bytes sent to the signers of a block are the same for every
\* signer of a round and the same in every later cycle that collects
\* signatures for that block again; the block they are marshalled from
\* carries no witness, in the first round and in every later one.
C11_SameBytes ==
    /\ \A g \in Gens :
          gen[g].pc = "collect" =>
              /\ gen[g].b.witness = <<>>
              /\ BytesOfRound(g) = {MarshalText(gen[g].b)}
              /\ round[g].msg = MarshalText(gen[g].b)
    /\ \A x, y \in sentBytes : x.block = y.block => x.bytes = y.bytes

\* A recovery cycle has sent the bytes of a block to two signers after a
\* generation cycle had sent the bytes of that block.
C11_Witness ==
    \E g \in Gens :
        /\ gen[g].pc = "collect"
        /\ cyc[g].path = "recover"
        /\ Len(round[g].sent) = 2
        /\ \E x, y \in sentBytes :
              /\ x.block = Hash(gen[g].b) /\ y.block = x.block
              /\ x.path = "fresh" /\ y.path = "recover"

\* C12: MakeBlock takes the recovery path if and only if the pending store
\* holds a block of height head+1 (height 1 when the chain has no head); in
\* every other case it generates a block, and the block it then saves,
\* signs and commits is not the one it read from the pending store.
C12_ReuseIffNext ==
    \A g \in Gens :
        /\ cyc[g].path = "recover" => PendingIsNext(g)
        /\ cyc[g].path = "fresh" =>
              /\ ~PendingIsNext(g)
              /\ (cyc[g].read /= Nil /\ cyc[g].generated) =>
                    /\ Hash(gen[g].b) /= Hash(cyc[g].read)
                    /\ cyc[g].saved /= Hash(cyc[g].read)
                    /\ cyc[g].commitOk /= Hash(cyc[g].read)

\* The slots of g's round that are still empty, and the keys of the round
\* under which sig verifies.
FreeKeys(g) == {k \in 1..Len(round[g].pubkeys) : round[g].goodSigs[k] = Nil}
VerifiesUnder(g, sig) ==
    {k \in 1..Len(round[g].pubkeys) : Verify(round[g].pubkeys[k], round[g].hashForSig, sig)}
First(S) == CHOOSE k \in S : \A j \in S : k <= j

\* g's collection loop takes up a reply that carries a signature.
TakesSignature(g) ==
    /\ gen[g].pc = "collect"
    /\ round[g].done /= <<>>
    /\ round'[g].i = round[g].i + 1
    /\ NextReply(g) /= Nil

\* C13 as stated: a signature is tried against the keys whose slot is still
\* empty only and fills the first of them under which it verifies; it is
\* logged as a protocol violation exactly when there is no such key.
C13_UnmatchedKeysOnly ==
    [][\A g \in Gens :
         TakesSignature(g) =>
            LET free == FreeKeys(g) \cap VerifiesUnder(g, NextReply(g))
            IN IF free /= {}
               THEN /\ round'[g].goodSigs = [round[g].goodSigs EXCEPT ![First(free)] = NextReply(g)]
                    /\ round'[g].logged = round[g].logged
               ELSE /\ round'[g].goodSigs = round[g].goodSigs
                    /\ round'[g].logged = round[g].logged + 1]_vars

\* C13 amended: a signature is tried against every key of the key set and
\* the first key under which it verifies decides: an empty slot is filled, a
\* filled slot makes the signature be dropped without a log line, and the
\* signature is logged as a protocol violation exactly when it verifies
\* under no key at all.  A filled slot is never overwritten.
C13_FirstKeyOfAll ==
    [][\A g \in Gens :
         TakesSignature(g) =>
            LET keys == VerifiesUnder(g, NextReply(g))
            IN /\ \A k \in 1..Len(round[g].goodSigs) :
                     round[g].goodSigs[k] /= Nil => round'[g].goodSigs[k] = round[g].goodSigs[k]
               /\ IF keys = {}
                  THEN /\ round'[g].goodSigs = round[g].goodSigs
                       /\ round'[g].nready = round[g].nready
                       /\ round'[g].logged = round[g].logged + 1
                  ELSE IF round[g].goodSigs[First(keys)] = Nil
                  THEN /\ round'[g].goodSigs = [round[g].goodSigs EXCEPT ![First(keys)] = NextReply(g)]
                       /\ round'[g].nready = round[g].nready + 1
                       /\ round'[g].logged = round[g].logged
                  ELSE /\ round'[g].goodSigs = round[g].goodSigs
                       /\ round'[g].nready = round[g].nready
                       /\ round'[g].logged = round[g].logged]_vars

\* C13 witness: two signers signed with the same key; the second signature
\* was taken up after the first had filled the key's slot, and was dropped
\* without a log line.
C13_Witness ==
    \E g \in Gens :
        /\ gen[g].pc = "collect"
        /\ round[g].i = 2
        /\ round[g].quorum = 2
        /\ round[g].replies[1] /= Nil
        /\ round[g].replies[1] = round[g].replies[2]
        /\ VerifiesUnder(g, round[g].replies[1]) /= {}
        /\ round[g].nready = 1
        /\ round[g].logged = 0

\* The index in g's key set of the key that sig matched.
KeyIndex(g, sig) == First(VerifiesUnder(g, sig))

\* C14: on success the witness lists the matched signatures by increasing
\* index of the key each one matched in the key set, one entry per filled
\* slot and none for an empty slot, whatever the order of the replies.
C14_WitnessInKeyOrder ==
    \A g \in Gens :
        (gen[g].pc = "commit" /\ cyc[g].signReqs > 0) =>
            LET w == gen[g].b.witness
            IN /\ Len(w) = Cardinality({k \in 1..Len(round[g].goodSigs) : round[g].goodSigs[k] /= Nil})
               /\ \A a \in 1..Len(w) :
                     /\ VerifiesUnder(g, w[a]) /= {}
                     /\ round[g].goodSigs[KeyIndex(g, w[a])] = w[a]
               /\ \A a, c \in 1..Len(w) : a < c => KeyIndex(g, w[a]) < KeyIndex(g, w[c])

\* C14 witness: signer 1 replied first with a signature of the second key,
\* signer 2 after it with a signature of the first key; the witness has the
\* second signer's signature first.
C14_Witness ==
    \E g \in Gens :
        /\ gen[g].pc = "commit"
        /\ cyc[g].signReqs = 2
        /\ round[g].taken = <<1, 2>>
        /\ round[g].replies[1] /= Nil /\ round[g].replies[2] /= Nil
        /\ VerifiesUnder(g, round[g].replies[1]) = {2}
        /\ VerifiesUnder(g, round[g].replies[2]) = {1}
        /\ gen[g].b.witness = <<round[g].replies[2], round[g].replies[1]>>

\* g's current MakeBlock call has launched the getSig goroutines.
Launched(g) == cyc[g].signReqs > 0

\* C15 as stated: collection consumes one completion per iteration and has
\* stopped exactly when M keys are matched or N completions are consumed;
\* the cancellation signal is not raised while collection runs and is
\* raised once it has stopped.
C15_SignalOnlyAfterStop ==
    \A g \in Gens :
        /\ gen[g].pc = "collect" =>
              /\ ~round[g].cancelled
              /\ round[g].i = Len(round[g].taken)
              /\ round[g].i <= nsigners /\ round[g].nready <= round[g].quorum
        /\ (Launched(g) /\ gen[g].pc /= "collect") =>
              /\ round[g].cancelled
              /\ (round[g].nready = round[g].quorum \/ round[g].i = nsigners)

\* C15 amended: collection consumes one completion per iteration, goes on
\* only while fewer than M keys are matched and fewer than N completions
\* are consumed, and ends exactly when one of the two is reached.  The
\* generator raises the cancellation signal when collection has ended, on
\* success and on failure; while collection runs the signal is raised only
\* by the cancellation of the caller's context, on a step that leaves the
\* collection as it is.
C15_StopThenCancel ==
    /\ [](\A g \in Gens :
            /\ gen[g].pc = "collect" =>
                  /\ round[g].i = Len(round[g].taken)
                  /\ round[g].i <= nsigners /\ round[g].nready <= round[g].quorum
            /\ (Launched(g) /\ gen[g].pc /= "collect") =>
                  /\ round[g].cancelled
                  /\ (round[g].nready = round[g].quorum \/ round[g].i = nsigners))
    /\ [][\A g \in Gens :
            (gen[g].pc = "collect" /\ round'[g].i /= round[g].i) =>
               /\ round[g].i < nsigners /\ round[g].nready < round[g].quorum
               /\ round'[g].i = round[g].i + 1
               /\ round'[g].done = Tail(round[g].done)
               /\ round'[g].cancelled = round[g].cancelled]_vars
    /\ [][\A g \in Gens :
            (gen[g].pc = "collect" /\ gen'[g].pc /= "collect") =>
               /\ (round[g].nready >= round[g].quorum \/ round[g].i >= nsigners)
               /\ round'[g].cancelled]_vars
    /\ [][\A g \in Gens :
            (gen[g].pc = "collect" /\ gen'[g].pc = "collect"
               /\ ~round[g].cancelled /\ round'[g].cancelled) =>
               /\ round'[g] = [round[g] EXCEPT !.cancelled = TRUE]
               /\ gen'[g] = gen[g]]_vars

\* C15 witness: the caller's context was cancelled while the collection
\* loop had consumed one completion and was waiting for the next.
C15_Witness ==
    \E g \in Gens :
        /\ gen[g].pc = "collect"
        /\ round[g].cancelled
        /\ round[g].i = 1
        /\ collecting(round[g], nsigners)

\* How often slot index i has been posted to g's completion queue.
Posts(g, i) ==
    Cardinality({n \in 1..Len(round[g].done) : round[g].done[n] = i})
      + Cardinality({n \in 1..Len(round[g].taken) : round[g].taken[n] = i})

\* C16: every launched request writes its reply slot before it posts its
\* slot index and posts it exactly once; the completion queue never holds
\* more than N entries and has room whenever a request is about to post,
\* also after the collector has returned; the collector reads a reply slot
\* only after it has received that slot's index.
C16_PostOnceNeverBlocks ==
    /\ [](\A g \in Gens :
            /\ Launched(g) => Len(round[g].st) = nsigners
            /\ Len(round[g].done) <= nsigners
            /\ \A i \in 1..Len(round[g].st) :
                  /\ round[g].st[i] = "running" => (round[g].replies[i] = Nil /\ Posts(g, i) = 0)
                  /\ round[g].st[i] = "signed" =>
                        (Posts(g, i) = 0 /\ Len(round[g].done) < chanCap(Len(round[g].st)))
                  /\ round[g].st[i] = "posted" => Posts(g, i) = 1)
    /\ [][\A g \in Gens : \A i \in 1..Len(round[g].st) :
            /\ (round'[g].st /= <<>> /\ round[g].st[i] = "posted") =>
                  (round'[g].st[i] = "posted" /\ round'[g].replies[i] = round[g].replies[i])
            /\ (round'[g].st /= <<>> /\ round[g].st[i] = "signed") =>
                  round'[g].replies[i] = round[g].replies[i]
            /\ (round[g].st[i] = "running" /\ round'[g].st /= <<>>) =>
                  round'[g].st[i] \in {"running", "signed"}]_vars
    /\ [][\A g \in Gens :
            (gen[g].pc = "collect" /\ round'[g].i = round[g].i + 1) =>
               /\ round[g].st[Head(round[g].done)] = "posted"
               /\ round'[g].taken = Append(round[g].taken, Head(round[g].done))]_vars

\* C16 witness: the collector returned after the first completion; the
\* other request wrote its slot and posted its index afterwards or
\* meanwhile, and its completion stays in the queue.
C16_Witness ==
    \E g \in Gens :
        /\ Launched(g)
        /\ gen[g].pc \in {"commit", "idle"}
        /\ Len(round[g].st) = 2
        /\ round[g].i = 1
        /\ \A i \in 1..2 : round[g].st[i] = "posted"
        /\ Len(round[g].done) = 1

\* C17: when every SignBlock request returns, a collection that has begun
\* ends and MakeBlock returns; until then the caller stays in the
\* collection as long as fewer than M keys are matched and some request has
\* not posted its completion; a request that failed is consumed as a reply
\* without signature and the round goes on.
C17_CollectionEnds ==
    /\ \A g \in Gens : (gen[g].pc = "collect") ~> (gen[g].pc = "idle")
    /\ [][\A g \in Gens :
            (/\ gen[g].pc = "collect"
             /\ round[g].nready < round[g].quorum
             /\ \E i \in 1..Len(round[g].st) : round[g].st[i] /= "posted") =>
               (gen'[g].pc = "collect" /\ result'[g] = result[g])]_vars
    /\ [][\A g \in Gens :
            (/\ gen[g].pc = "collect"
             /\ round'[g].i = round[g].i + 1
             /\ NextReply(g) = Nil) =>
               /\ gen'[g] = gen[g]
               /\ result'[g] = result[g]
               /\ round'[g].goodSigs = round[g].goodSigs
               /\ round'[g].nready = round[g].nready]_vars

\* C17 witness: one of two requests failed; its empty reply was consumed
\* first, the other reply made the quorum, and MakeBlock returned the
\* committed block.
C17_Witness ==
    \E g \in Gens :
        /\ gen[g].pc = "idle"
        /\ Launched(g)
        /\ Len(round[g].taken) = 2
        /\ round[g].replies[round[g].taken[1]] = Nil
        /\ round[g].nready = 1
        /\ result[g].status = "ok"

\* C18: when applying the recovered pending block to the copy of the head
\* snapshot fails, the process stops there: the step out of the recovery
\* branch either has applied the block and goes on to sign, or ends the
\* process; a stopped process has issued no SignBlock request, has not
\* called CommitAppliedBlock, has neither generated a block nor written
\* the pending store, and takes no further step.
C18_ApplyFailureStops ==
    /\ [][\A g \in Gens :
            (gen[g].pc = "recover" /\ gen'[g].pc /= "recover") =>
               \/ /\ gen'[g].pc = "sign"
                  /\ gen'[g].s.val = Applied(gen[g].latestSnapshot, gen[g].b)
               \/ /\ gen'[g].pc = "fatal"
                  /\ gen'[g].s.val = gen[g].latestSnapshot]_vars
    /\ [](\A g \in Gens :
            gen[g].pc = "fatal" =>
               /\ cyc[g].path = "recover"
               /\ ~cyc[g].generated
               /\ cyc[g].saveCalls = 0
               /\ cyc[g].signCalls = 0 /\ cyc[g].signReqs = 0
               /\ round[g] = NoRound
               /\ cyc[g].commitCalls = 0
               /\ result[g] = NoResult
               /\ pendingRow /= Nil /\ pendingRow.data = cyc[g].read)
    /\ [][\A g \in Gens :
            gen[g].pc = "fatal" =>
               /\ gen'[g] = gen[g] /\ cyc'[g] = cyc[g]
               /\ round'[g] = round[g] /\ result'[g] = result[g]
               /\ pool'[g] = pool[g]
               /\ pendingRow' = pendingRow /\ committed' = committed
               /\ chainBlock' = chainBlock /\ sentBytes' = sentBytes]_vars

\* C18 witness: a pending block above an existing head was read and its
\* application failed.
C18_Witness ==
    \E g \in Gens :
        /\ gen[g].pc = "fatal"
        /\ gen[g].latestBlock /= Nil
        /\ cyc[g].read /= Nil
        /\ cyc[g].read.height = gen[g].latestBlock.height + 1

\* C19: whenever getAndAddBlockSignatures is entered without a previous
\* block the candidate block has height 1, on the generation path and on
\* the recovery path, so that prevBlock.ConsensusProgram is never read
\* from a missing block.
C19_NoMissingPrevBlock ==
    \A g \in Gens :
        /\ (gen[g].pc = "sign" /\ gen[g].latestBlock = Nil) => gen[g].b.height = 1
        /\ gen[g].pc /= "panic"

\* A step that is a Submit call on g and no step of g's MakeBlock call.
SubmitStep(g) ==
    /\ gen'[g] = gen[g] /\ cyc'[g] = cyc[g] /\ round'[g] = round[g] /\ result'[g] = result[g]
    /\ \E tx \in TxIds \ poolHashes[g] :
          /\ pool'[g] = Append(pool[g], tx)
          /\ poolHashes'[g] = poolHashes[g] \cup {tx}

\* The step of g's MakeBlock call that takes the pool.
TakePoolStep(g) ==
    /\ gen[g].pc = "swap" /\ gen'[g].pc = "generate"
    /\ cyc'[g].path = "fresh"
    /\ gen'[g].txs = pool[g]
    /\ pool'[g] = <<>>
    /\ poolHashes'[g] = {}

\* C20: on the generation path one step of MakeBlock takes the whole pool
\* and its hash index, leaving both empty, and no later step of the call,
\* whatever its outcome, changes them again: what the pool holds when the
\* call ends was submitted after the pool was taken.  A call on the
\* recovery path has no step that changes the pool or its hash index.
C20_PoolTakenOnce ==
    /\ [][\A g \in Gens :
            (pool'[g] /= pool[g] \/ poolHashes'[g] /= poolHashes[g]) =>
               (TakePoolStep(g) \/ SubmitStep(g))]_vars
    /\ [][\A g \in Gens :
            (gen[g].pc = "swap" /\ gen'[g].pc /= "swap") => TakePoolStep(g)]_vars
    /\ [](\A g \in Gens :
            /\ cyc[g].path = "recover" =>
                  (gen[g].pc \notin {"swap", "generate", "save"} /\ gen[g].txs = <<>>)
            /\ cyc[g].path = "fresh" =>
                  \A n \in 1..Len(pool[g]) : pool[g][n] \in poolHashes[g]
            /\ (cyc[g].path = "fresh" /\ gen[g].pc = "idle") =>
                  result[g].status \in {"ok", "error"})

\* C20 witness: a call on the generation path took a transaction from the
\* pool and ended with a commit failure; the pool is empty.
C20_Witness ==
    \E g \in Gens :
        /\ gen[g].pc = "idle"
        /\ cyc[g].path = "fresh"
        /\ gen[g].txs /= <<>>
        /\ result[g].status = "error" /\ result[g].wrap = "commit"
        /\ pool[g] = <<>> /\ poolHashes[g] = {}
====
